---------------------------- MODULE Spec2Model ----------------------------
(***************************************************************************)
(* SEPTA station finder: the find-nearest-station endpoint                  *)
(* (src/app/api/routers/septa.py), the station index and the adapters       *)
(* (src/app/api/utils.py), the request dependencies                         *)
(* (src/app/core/config.py) and the lifespan (src/app/api/main.py).         *)
(*                                                                         *)
(* Real numbers are binary fixed point with 15 fractional bits (ONE is      *)
(* 1.0): coordinates, angles, sines.  TLC's integers are 32 bits wide, so   *)
(* every product is split by MulDiv.  Distances to the service centre are   *)
(* whole metres; reported distances are hundredths of a kilometre, which   *)
(* is what round(x, 2) keeps.                                               *)
(***************************************************************************)
EXTENDS Integers, Sequences, FiniteSets, TLC

\* ------------------------------------------------------------ arithmetic

ONE == 2 ^ 15

\* floor(x * n / d) without forming x * n; needs |n| * d < 2^31.
MulDiv(x, n, d) == (x \div d) * n + ((x % d) * n) \div d

\* A coordinate given in millionths of a degree, as fixed point.
Deg(u) == MulDiv(u, 4096, 125000)

PI_FX == MulDiv(355, ONE, 113)
TWO_PI == MulDiv(710, ONE, 113)
HALF_PI == MulDiv(355, ONE, 226)

\* np.radians: x * pi / 180 (pi as 355/113).
Radians(x) == MulDiv(x, 355, 20340)

\* np.degrees: x * 180 / pi.
Degrees(x) == MulDiv(x, 20340, 355)

\* sin of an angle in radians: reduced to [-pi/2, pi/2], then the Taylor
\* polynomial to x^9 in Horner form.
Sin(x) ==
    LET r0 == x % TWO_PI
        r1 == IF r0 > PI_FX THEN r0 - TWO_PI ELSE r0
        r  == IF r1 > HALF_PI THEN PI_FX - r1
              ELSE IF r1 < -HALF_PI THEN -PI_FX - r1 ELSE r1
        x2 == MulDiv(r, r, ONE)
        t4 == ONE - x2 \div 72
        t3 == ONE - MulDiv(x2, t4, ONE) \div 42
        t2 == ONE - MulDiv(x2, t3, ONE) \div 20
        t1 == ONE - MulDiv(x2, t2, ONE) \div 6
    IN MulDiv(r, t1, ONE)

Cos(x) == Sin(x + HALF_PI)

\* floor(sqrt(n)) for 0 <= n <= ONE * ONE, by bisection on [lo, hi).
RECURSIVE SqrtIn(_, _, _)
SqrtIn(n, lo, hi) ==
    IF hi - lo <= 1 THEN lo
    ELSE LET m == (lo + hi) \div 2
         IN IF m * m <= n THEN SqrtIn(n, m, hi) ELSE SqrtIn(n, lo, m)

Sqrt(n) == SqrtIn(n, 0, ONE + 1)

\* arcsin on [0, 1]: the largest angle in [0, pi/2] whose sine is <= y.
RECURSIVE AsinIn(_, _, _)
AsinIn(y, lo, hi) ==
    IF hi - lo <= 1 THEN lo
    ELSE LET m == (lo + hi) \div 2
         IN IF Sin(m) <= y THEN AsinIn(y, m, hi) ELSE AsinIn(y, lo, m)

Asin(y) == AsinIn(y, 0, HALF_PI + 1)

\* The haversine metric of sklearn's BallTree on two (lat, lon) points,
\* both READ AS RADIANS: 2 asin sqrt(sin^2(dlat/2) + cos cos sin^2(dlon/2)).
\* The result is an angle in radians.
Haversine(p, q) ==
    LET s1 == Sin((q[1] - p[1]) \div 2)
        s2 == Sin((q[2] - p[2]) \div 2)
        cc == MulDiv(Cos(p[1]), Cos(q[1]), ONE)
        h  == s1 * s1 + MulDiv(s2 * s2, cc, ONE)
    IN 2 * Asin(Sqrt(IF h < 0 THEN 0 ELSE h))

\* round(x, 2) of a fixed-point number, in hundredths (ties to even).
Round2(x) ==
    LET q == MulDiv(x, 100, ONE)
        r == ((x % ONE) * 100) % ONE
    IN IF 2 * r > ONE \/ (2 * r = ONE /\ q % 2 = 1) THEN q + 1 ELSE q

\* round(m / 1000, 2) of a whole number of metres, in hundredths of a km.
RoundMetres(m) ==
    LET q == m \div 10
        r == m % 10
    IN IF r > 5 \/ (r = 5 /\ q % 2 = 1) THEN q + 1 ELSE q


\* ------------------------------------------------------- program constants

\* septa.py: the centre of the service area and its radius.
SEPTA_CENTER_LAT == Deg(39952600)
SEPTA_CENTER_LON == Deg(-75165200)
MAX_SERVICE_RADIUS_KM == 80

\* septa.py line 121: Earth's mean radius, km.
EARTH_RADIUS_KM == 6371

\* utils.py line 14: geopy's default timeout, seconds.
GEOCODER_TIMEOUT == 10

\* Python's None, and a present value, as sequences of length 0 and 1.
None == <<>>
Some(v) == <<v>>

\* The timeout each adapter gives its network call: geopy's default
\* (utils.py 14-15); none for requests.get(url) (utils.py 58).
GeocoderTimeout == Some(GEOCODER_TIMEOUT)
DirectionsTimeout == None

\* ------------------------------------------------------------ sample data

\* The number of requests a behaviour receives.
MaxRequests == 2

\* The uvicorn worker processes: each has its own module globals (_data,
\* _tree) and its own event loop; Redis is shared by all of them.
Workers == {"w1", "w2"}

\* A row of the station dataset: the Name column and the point geometry
\* (x is the longitude, y the latitude, in degrees).
Station(name, lat, lon) == [Name |-> name, x |-> Deg(lon), y |-> Deg(lat)]

\* Two contents of the station file (some of the Regional Rail stations).
DatasetA ==
    << Station("30th Street Station", 39955700, -75182000),
       Station("Trenton", 40217800, -74755000),
       Station("Paoli", 40042900, -75483600) >>

DatasetB ==
    << Station("Doylestown", 40306600, -75130200),
       Station("Jefferson Station", 39952500, -75158100) >>

DataFiles == {DatasetA, DatasetB}

\* Sample locations, <<latitude, longitude>> in degrees.
CityHall == <<Deg(39952600), Deg(-75165200)>>
Edge == <<Deg(40673057), Deg(-75165200)>>
Beyond == <<Deg(40673100), Deg(-75165200)>>
Origin == <<0, 0>>
NorthOfPole == <<Deg(91000000), Deg(0)>>

\* geopy's geodesic(p, centre).kilometers on the WGS-84 ellipsoid, in whole
\* metres, for the sample locations (Edge is the point of the centre's
\* meridian 80.000 km to the north; Beyond is 4.8 m further).
Geodesic(lat, lon) ==
    CASE <<lat, lon>> = CityHall -> 0
      [] <<lat, lon>> = Edge     -> 80000
      [] <<lat, lon>> = Beyond   -> 80005
      [] <<lat, lon>> = Origin   -> 8749832

\* Request bodies: an optional address and optional coordinates.
Body(address, coords) == [address |-> address, coords |-> coords]

Bodies ==
    { Body(None, None),
      Body(None, Some(CityHall)),
      Body(None, Some(Edge)),
      Body(None, Some(Beyond)),
      Body(None, Some(NorthOfPole)),
      Body(Some("1400 John F Kennedy Blvd Philadelphia PA 19107"), None) }

\* What the geocoding service may do with an address: find a location,
\* find none, or never answer.
GeocodeReplies ==
    { [kind |-> "found", latitude |-> CityHall[1], longitude |-> CityHall[2]],
      [kind |-> "found", latitude |-> Beyond[1], longitude |-> Beyond[2]],
      [kind |-> "none", latitude |-> 0, longitude |-> 0],
      [kind |-> "unresponsive", latitude |-> 0, longitude |-> 0] }

\* What the routing service may do: answer with a route, answer with a
\* code other than "Ok", answer with a payload that has no route or is not
\* JSON, fail at the network level, or never answer.
Route ==
    [distance |-> 1470, duration |-> 1058,
     legs |-> << [steps |-> << [name |-> "", distance |-> 120],
                               [name |-> "Market Street", distance |-> 1350] >>] >>]

OsrmReply(net, json, code, routes) ==
    [net |-> net, json |-> json, code |-> code, routes |-> routes]

OsrmOk == OsrmReply("ok", TRUE, "Ok", <<Route>>)
OsrmNoRoute == OsrmReply("ok", TRUE, "NoRoute", <<>>)
OsrmNoRoutesKey == OsrmReply("ok", TRUE, "Ok", <<>>)
OsrmNotJson == OsrmReply("ok", FALSE, "", <<>>)
OsrmNetworkError == OsrmReply("error", FALSE, "", <<>>)
OsrmUnresponsive == OsrmReply("unresponsive", FALSE, "", <<>>)

OsrmFailures == {OsrmNoRoute, OsrmNoRoutesKey, OsrmNotJson, OsrmNetworkError}
OsrmReplies == {OsrmOk, OsrmUnresponsive} \cup OsrmFailures


\* --------------------------------------------------------------- values

\* fastapi.HTTPException(status_code, detail); detail is a sequence.
HTTPException(status, detail) ==
    [exc |-> "HTTPException", status_code |-> status, detail |-> detail]

\* Any other Python exception.
PyError(name, message) ==
    [exc |-> name, status_code |-> 0, detail |-> <<message>>]

\* str(e) of an exception: "<status>: <detail>" for an HTTPException.
Str(e) ==
    IF e.exc = "HTTPException" THEN <<e.status_code>> \o e.detail ELSE e.detail

\* What the path operation did: still running, returned a StationResponse
\* (septa.py 148), returned the str that redis.get gave (septa.py 110), or
\* raised.
Pending == [kind |-> "pending", type |-> "", value |-> None]
Return(v) == [kind |-> "return", type |-> "StationResponse", value |-> Some(v)]
ReturnStr(t) == [kind |-> "return", type |-> "str", value |-> Some(t)]
Raise(e) == [kind |-> "raise", type |-> "", value |-> Some(e)]

\* LocationInput (septa.py 22-25): an absent field takes its default, and
\* the default of latitude and longitude is Decimal('0.0'), not None.
LocationInput(body) ==
    [address   |-> body.address,
     latitude  |-> IF body.coords = None THEN Some(0) ELSE Some(body.coords[1][1]),
     longitude |-> IF body.coords = None THEN Some(0) ELSE Some(body.coords[1][2])]

\* The field validators of LocationInput (septa.py 26-36).
validate_latitude(v) ==
    ~(v # None /\ (v[1] < Deg(-90000000) \/ v[1] > Deg(90000000)))

validate_longitude(v) ==
    ~(v # None /\ (v[1] < Deg(-180000000) \/ v[1] > Deg(180000000)))

\* f"septa_nearest_station_{latitude}_{longitude}" (septa.py 107).
CacheKey(latitude, longitude) == <<"septa_nearest_station", latitude, longitude>>

\* StationResponse.model_dump_json(): the JSON text of the response, as
\* the sequence of its member names and values.
ModelDumpJson(r) ==
    << "station_name", r.station_name, "distance_km", r.distance_km,
       "geojson", r.geojson, "walking_directions", r.walking_directions >>

\* station_to_geojson (utils.py 82-100).
StationToGeojson(st) ==
    [type       |-> "Feature",
     geometry   |-> [type |-> "Point", coordinates |-> <<st.x, st.y>>],
     properties |-> [Name |-> st.Name]]

\* round(seconds / 60, 1), in tenths of a minute (ties to even).
RoundMinutes(sec) ==
    LET q == sec \div 6
        r == sec % 6
    IN IF r > 3 \/ (r = 3 /\ q % 2 = 1) THEN q + 1 ELSE q

RECURSIVE Flatten(_)
Flatten(legs) ==
    IF legs = <<>> THEN <<>> ELSE Head(legs).steps \o Flatten(Tail(legs))

\* The steps loop of get_walking_directions (utils.py 65-71).
Steps(route) ==
    LET all == Flatten(route.legs)
    IN [i \in 1..Len(all) |->
          [instruction     |-> IF all[i].name = "" THEN "continue" ELSE all[i].name,
           distance_meters |-> all[i].distance]]

\* The WalkingDirections built from the first route (utils.py 63-77).
Directions(route) ==
    [distance |-> RoundMetres(route.distance),
     duration |-> RoundMinutes(route.duration),
     steps    |-> Steps(route)]

\* As get_walking_directions, with an except clause that catches only the
\* errors of the network call: a payload that is not JSON or has no route
\* raises out of the function.
GetWalkingDirections_NarrowExcept(reply) ==
    IF reply.net # "ok" THEN [raised |-> FALSE, value |-> None]
    ELSE IF ~reply.json THEN [raised |-> TRUE, value |-> None]
    ELSE IF reply.code # "Ok" THEN [raised |-> FALSE, value |-> None]
    ELSE IF reply.routes = <<>> THEN [raised |-> TRUE, value |-> None]
    ELSE [raised |-> FALSE, value |-> Some(Directions(reply.routes[1]))]

\* get_walking_directions (utils.py 52-79) for a reply that arrives:
\* "value" is what it returns, "raised" whether an exception leaves it.
\* requests.get failing, response.json() failing, a code other than "Ok"
\* and a payload without a first route all end in None, the last three by
\* way of except Exception.
GetWalkingDirections(reply) ==
    IF reply.net # "ok" THEN [raised |-> FALSE, value |-> None]
    ELSE IF ~reply.json THEN [raised |-> FALSE, value |-> None]
    ELSE IF reply.code # "Ok" THEN [raised |-> FALSE, value |-> None]
    ELSE IF reply.routes = <<>> THEN [raised |-> FALSE, value |-> None]
    ELSE [raised |-> FALSE, value |-> Some(Directions(reply.routes[1]))]

\* ------------------------------------------------------- the station index

\* The rows of the array load_septa_data hands to BallTree (utils.py
\* 32-38): np.radians of np.degrees of (geometry.y, geometry.x).
TreePoint(st) == <<Radians(Degrees(st.y)), Radians(Degrees(st.x))>>

BallTree(stations) == [i \in 1..Len(stations) |-> TreePoint(stations[i])]

\* tree.query(q, k=1): the indices at the least haversine distance from q
\* (which of several the tree returns is not defined), and that distance.
TreeDistance(points, q, i) == Haversine(q, points[i])

TreeQuery(points, q) ==
    { i \in 1..Len(points) :
        \A j \in 1..Len(points) :
            TreeDistance(points, q, i) <= TreeDistance(points, q, j) }


\* ---------------------------------------------------------------- state

VARIABLES
    data,     \* utils._data of each worker: None ({}), or Some(the dataset)
    tree,     \* utils._tree of each worker: None, or Some(the tree's points)
    redis,    \* the Redis store shared by the workers: key -> text
    req,      \* the request each worker's event loop is handling
    received  \* how many requests have arrived so far

vars == <<data, tree, redis, req, received>>

\* A request before anything ran.  "body" is the body as it was sent,
\* "calls" records which collaborators the request has used, "osrm" whether
\* the routing service's reply was a route.
NewRequest(pc, body) ==
    [pc |-> pc, body |-> body, location |-> LocationInput(body),
     cache_key |-> None, cached_result |-> None,
     nearest_idx |-> 0, distance_km |-> 0, nearest_station |-> None,
     response |-> None, outcome |-> Pending,
     calls |-> {}, osrm |-> ""]

Idle == NewRequest("idle", Body(None, None))

Init ==
    /\ data = [w \in Workers |-> None]
    /\ tree = [w \in Workers |-> None]
    /\ redis = <<>>
    /\ req = [w \in Workers |-> Idle]
    /\ received = 0

\* The worker is not inside a path operation: find_nearest_station has no
\* await, so it runs from its first line to its last on the event loop.
AtRest(w) == req[w].pc = "idle"

Finish(r, outcome) == [r EXCEPT !.pc = "teardown", !.outcome = outcome]

\* ----------------------------------------------- load and unload (utils.py)

\* As load_septa_data, building the tree only when there is none yet.
LoadSeptaData_KeepsOldTree(w, file) ==
    /\ AtRest(w)
    /\ data' = [data EXCEPT ![w] = Some(file)]
    /\ tree' = [tree EXCEPT ![w] = IF @ = None THEN Some(BallTree(file)) ELSE @]
    /\ UNCHANGED <<redis, req, received>>

\* load_septa_data (utils.py 27-38): no await between the two assignments.
LoadSeptaData(w, file) ==
    /\ AtRest(w)
    /\ data' = [data EXCEPT ![w] = Some(file)]
    /\ tree' = [tree EXCEPT ![w] = Some(BallTree(file))]
    /\ UNCHANGED <<redis, req, received>>

\* As delete_septa_data, without the assignment to _tree.
DeleteSeptaData_KeepsTree(w) ==
    /\ AtRest(w)
    /\ data' = [data EXCEPT ![w] = None]
    /\ UNCHANGED <<tree, redis, req, received>>

\* delete_septa_data (utils.py 41-45).
DeleteSeptaData(w) ==
    /\ AtRest(w)
    /\ data' = [data EXCEPT ![w] = None]
    /\ tree' = [tree EXCEPT ![w] = None]
    /\ UNCHANGED <<redis, req, received>>

\* ------------------------------------------- find_nearest_station (septa.py)

\* septa.py 73: the condition of the input check.
InputMissing(location) ==
    /\ (location.latitude = None \/ location.longitude = None)
    /\ location.address = None

\* A request arrives and the INPUT step runs: the dependencies are set up
\* (get_redis_client pings Redis, config.py 48-59), the body is validated
\* into a LocationInput, and the path operation checks it (septa.py 72-74).
Receive(w, body, ping) ==
    /\ AtRest(w)
    /\ received < MaxRequests
    /\ received' = received + 1
    /\ LET location == LocationInput(body)
       IN req' = [req EXCEPT ![w] =
            IF ~ping
            THEN Finish(NewRequest("teardown", body),
                        Raise(HTTPException(500, <<"ConnectionError">>)))
            ELSE IF ~(validate_latitude(location.latitude)
                      /\ validate_longitude(location.longitude))
            THEN Finish(NewRequest("teardown", body),
                        Raise(PyError("RequestValidationError", "value_error")))
            ELSE IF InputMissing(location)
            THEN Finish(NewRequest("teardown", body),
                        Raise(HTTPException(400,
                <<"Either an address or latitude/longitude must be provided">>)))
            ELSE NewRequest("resolve", body)]
    /\ UNCHANGED <<data, tree, redis>>

Truthy(address) == address # None /\ address[1] # ""

\* septa.py 76-83: geocode the address, if there is one.  A service that
\* never answers ends the call when the geocoder's timeout expires.
Resolve(w, reply) ==
    /\ req[w].pc = "resolve"
    /\ req' = [req EXCEPT ![w] =
         IF ~Truthy(req[w].location.address)
         THEN [@ EXCEPT !.pc = "filter"]
         ELSE LET r == [@ EXCEPT !.calls = @ \cup {"geocode"}]
              IN CASE reply.kind = "found" ->
                        [r EXCEPT !.pc = "filter",
                                  !.location.latitude = Some(reply.latitude),
                                  !.location.longitude = Some(reply.longitude)]
                   [] reply.kind = "none" ->
                        Finish(r, Raise(HTTPException(400,
                            <<"Could not geocode the provided address">>)))
                   [] reply.kind = "unresponsive" ->
                        IF GeocoderTimeout # None
                        THEN Finish(r, Raise(PyError("GeocoderTimedOut",
                                                     "Service timed out")))
                        ELSE [r EXCEPT !.pc = "blocked"]]
    /\ UNCHANGED <<data, tree, redis, received>>

\* septa.py 86-89 and 91.
DistanceToCenter(location) == Geodesic(location.latitude[1], location.longitude[1])

OutsideServiceArea_Inclusive(distance_to_center) ==
    distance_to_center >= MAX_SERVICE_RADIUS_KM * 1000

OutsideServiceArea(distance_to_center) ==
    distance_to_center > MAX_SERVICE_RADIUS_KM * 1000

\* septa.py 92-104: the detail of the rejection.
OutOfServiceArea(distance_to_center) ==
    HTTPException(422,
        << "Location is outside of SEPTA's service area",
           RoundMetres(distance_to_center),
           MAX_SERVICE_RADIUS_KM,
           <<SEPTA_CENTER_LAT, SEPTA_CENTER_LON, "Philadelphia, PA">> >>)

\* septa.py 85-104: the service-area check.
Filter(w) ==
    /\ req[w].pc = "filter"
    /\ LET distance_to_center == DistanceToCenter(req[w].location)
       IN req' = [req EXCEPT ![w] =
            IF OutsideServiceArea(distance_to_center)
            THEN Finish([@ EXCEPT !.calls = @ \cup {"filter"}],
                        Raise(OutOfServiceArea(distance_to_center)))
            ELSE [@ EXCEPT !.pc = "lookup", !.calls = @ \cup {"filter"}]]
    /\ UNCHANGED <<data, tree, redis, received>>

\* redis.get(key): the text stored under the key, or None.
RedisGet(key) == IF key \in DOMAIN redis THEN redis[key] ELSE None

\* As CacheLookup, without the return on a hit.
CacheLookup_FallsThrough(w) ==
    /\ req[w].pc = "lookup"
    /\ LET cache_key == CacheKey(req[w].location.latitude[1],
                                 req[w].location.longitude[1])
       IN req' = [req EXCEPT ![w] =
            [@ EXCEPT !.pc = "query",
                      !.cache_key = Some(cache_key),
                      !.cached_result = RedisGet(cache_key),
                      !.calls = @ \cup {"cache_get"}]]
    /\ UNCHANGED <<data, tree, redis, received>>

\* septa.py 106-110: a hit returns the stored text as it is.
CacheLookup(w) ==
    /\ req[w].pc = "lookup"
    /\ LET cache_key == CacheKey(req[w].location.latitude[1],
                                 req[w].location.longitude[1])
           cached_result == RedisGet(cache_key)
           r == [req[w] EXCEPT !.cache_key = Some(cache_key),
                               !.cached_result = cached_result,
                               !.calls = @ \cup {"cache_get"}]
       IN req' = [req EXCEPT ![w] =
            IF cached_result # None
            THEN Finish(r, ReturnStr(cached_result))
            ELSE [r EXCEPT !.pc = "query"]]
    /\ UNCHANGED <<data, tree, redis, received>>

\* septa.py 112-126: the nearest station.  get_tree() is None before the
\* load and after the unload, and None has no query().
Query(w) ==
    /\ req[w].pc = "query"
    /\ LET user_location_rad == << Radians(req[w].location.latitude[1]),
                                   Radians(req[w].location.longitude[1]) >>
           r == [req[w] EXCEPT !.calls = @ \cup {"tree_query"}]
       IN IF tree[w] = None
          THEN req' = [req EXCEPT ![w] = Finish(r, Raise(PyError("AttributeError",
                          "'NoneType' object has no attribute 'query'")))]
          ELSE \E idx \in TreeQuery(tree[w][1], user_location_rad) :
                 req' = [req EXCEPT ![w] =
                   IF data[w] = None
                   THEN Finish(r, Raise(PyError("KeyError", "septa_data")))
                   ELSE IF idx > Len(data[w][1])
                   THEN Finish(r, Raise(PyError("IndexError",
                                   "single positional indexer is out-of-bounds")))
                   ELSE [r EXCEPT
                          !.pc = "enrich",
                          !.nearest_idx = idx,
                          !.distance_km =
                              TreeDistance(tree[w][1], user_location_rad, idx)
                                  * EARTH_RADIUS_KM,
                          !.nearest_station = Some(data[w][1][idx])]]
    /\ UNCHANGED <<data, tree, redis, received>>

\* septa.py 128-145: the walking directions and the response.  Without a
\* timeout, a routing service that never answers keeps requests.get, and
\* with it the worker's event loop, waiting.
Enrich(w, reply) ==
    /\ req[w].pc = "enrich"
    /\ LET r == [req[w] EXCEPT !.calls = @ \cup {"directions"}]
           answer == IF reply.net = "unresponsive" THEN OsrmNetworkError ELSE reply
           walking_directions == GetWalkingDirections(answer)
           nearest_station == r.nearest_station[1]
       IN req' = [req EXCEPT ![w] =
            IF reply.net = "unresponsive" /\ DirectionsTimeout = None
            THEN [r EXCEPT !.pc = "blocked"]
            ELSE IF walking_directions.raised
            THEN Finish([r EXCEPT !.osrm = "failed"],
                        Raise(PyError("KeyError", "routes")))
            ELSE [r EXCEPT
                   !.pc = "store",
                   !.osrm = IF reply = OsrmOk THEN "ok" ELSE "failed",
                   !.response = Some(
                       [station_name       |-> nearest_station.Name,
                        distance_km        |-> Round2(r.distance_km),
                        geojson            |-> StationToGeojson(nearest_station),
                        walking_directions |-> walking_directions.value])]]
    /\ UNCHANGED <<data, tree, redis, received>>

\* septa.py 147-148: store the response under the key of the lookup.
StoreKey(r) == r.cache_key[1]

Store(w) ==
    /\ req[w].pc = "store"
    /\ redis' = (StoreKey(req[w]) :> ModelDumpJson(req[w].response[1])) @@ redis
    /\ req' = [req EXCEPT ![w] =
         Finish([@ EXCEPT !.calls = @ \cup {"cache_set"}], Return(@.response[1]))]
    /\ UNCHANGED <<data, tree, received>>

\* --------------------------------------------- dependencies (config.py)

\* get_redis_client (config.py 48-61) after its yield: an exception of the
\* path operation is thrown in at the yield, inside the try, and every
\* Exception is answered with HTTPException(500, str(e)).
RedisClientExit(outcome) ==
    IF outcome.kind = "raise"
    THEN Raise(HTTPException(500, Str(outcome.value[1])))
    ELSE outcome

\* get_database_client (config.py 31-44) after its yield: the yield is
\* outside the try, so an exception thrown in passes through; otherwise
\* the session is committed and closed.
DatabaseClientExit(outcome) == outcome

\* What the caller receives.  A returned StationResponse is sent as a JSON
\* object, a returned str as a JSON string; an HTTPException as its status
\* and detail; any other exception as a plain 500.
Reply(status, json_type, object, text, detail) ==
    [status |-> status, json_type |-> json_type,
     object |-> object, text |-> text, detail |-> detail]

Encode(outcome) ==
    IF outcome.kind = "raise"
    THEN IF outcome.value[1].exc = "HTTPException"
         THEN Reply(outcome.value[1].status_code, "object", None, None,
                    outcome.value[1].detail)
         ELSE IF outcome.value[1].exc = "RequestValidationError"
         THEN Reply(422, "object", None, None, outcome.value[1].detail)
         ELSE Reply(500, "string", None, None, <<"Internal Server Error">>)
    ELSE IF outcome.type = "str"
         THEN Reply(200, "string", None, outcome.value[1], None)
         ELSE Reply(200, "object", outcome.value, None, None)

ClientResponse(outcome) == Encode(DatabaseClientExit(RedisClientExit(outcome)))

\* The dependencies exit and the response is sent.
Respond(w) ==
    /\ req[w].pc = "teardown"
    /\ req' = [req EXCEPT ![w] = Idle]
    /\ UNCHANGED <<data, tree, redis, received>>

\* ------------------------------------------------------------ behaviours

Next ==
    \/ \E w \in Workers, file \in DataFiles : LoadSeptaData(w, file)
    \/ \E w \in Workers : DeleteSeptaData(w)
    \/ \E w \in Workers, body \in Bodies, ping \in BOOLEAN : Receive(w, body, ping)
    \/ \E w \in Workers, reply \in GeocodeReplies : Resolve(w, reply)
    \/ \E w \in Workers : Filter(w)
    \/ \E w \in Workers : CacheLookup(w)
    \/ \E w \in Workers : Query(w)
    \/ \E w \in Workers, reply \in OsrmReplies : Enrich(w, reply)
    \/ \E w \in Workers : Store(w)
    \/ \E w \in Workers : Respond(w)

Spec == Init /\ [][Next]_vars

\* ---------------------------------------------------------------- claims

\* The great-circle distance, in km, between a location and a station, both
\* given in degrees and both converted to radians.
GreatCircleKm(latitude, longitude, st) ==
    Haversine(<<Radians(latitude), Radians(longitude)>>,
              <<Radians(st.y), Radians(st.x)>>) * EARTH_RADIUS_KM

\* The request of worker w ran the index query and returned a response.
AnsweredFromIndex(w) ==
    /\ req[w].pc = "teardown"
    /\ req[w].outcome.kind = "return"
    /\ "tree_query" \in req[w].calls

\* C1: with the index loaded, a cache-miss call returns a station of the
\* loaded dataset that is at the least great-circle distance from the query
\* point, and distance_km is the great-circle distance to that station.
C1_NearestStation ==
    \A w \in Workers :
        AnsweredFromIndex(w) =>
            LET r == req[w].response[1]
                lat == req[w].location.latitude[1]
                lon == req[w].location.longitude[1]
                stations == data[w][1]
            IN \E i \in 1..Len(stations) :
                 /\ r.station_name = stations[i].Name
                 /\ r.geojson = StationToGeojson(stations[i])
                 /\ \A j \in 1..Len(stations) :
                        GreatCircleKm(lat, lon, stations[i])
                            <= GreatCircleKm(lat, lon, stations[j])
                 /\ r.distance_km = Round2(GreatCircleKm(lat, lon, stations[i]))

\* The request of worker w was sent with neither an address nor coordinates
\* and its dependencies were set up.
SentNothing(w) ==
    /\ req[w].pc # "idle"
    /\ req[w].body = Body(None, None)
    /\ ~(req[w].outcome.kind = "raise"
         /\ req[w].outcome.value[1].detail = <<"ConnectionError">>)

\* C2: a request with neither an address nor coordinates fails with the
\* 400 of the input check before any geocoding, service-area check, cache
\* access or index query.
C2_MissingInputRejected ==
    \A w \in Workers :
        SentNothing(w) =>
            /\ req[w].pc = "teardown"
            /\ req[w].outcome.kind = "raise"
            /\ req[w].outcome.value[1].status_code = 400
            /\ req[w].calls = {}

\* The path operation of worker w raised the out-of-service-area rejection.
Rejected(w) ==
    /\ req[w].pc = "teardown"
    /\ req[w].outcome.kind = "raise"
    /\ req[w].outcome.value[1].status_code = 422
    /\ req[w].outcome.value[1].exc = "HTTPException"

\* C3: a resolved location is rejected with 422 exactly when its measured
\* distance from the centre is strictly greater than 80 km; the rejection
\* carries the measured distance, the limit and the centre; a rejected
\* request has used neither the cache nor the index.
C3_ServiceArea ==
    \A w \in Workers :
        LET d == DistanceToCenter(req[w].location)
        IN /\ "filter" \in req[w].calls =>
                /\ Rejected(w) <=> d > MAX_SERVICE_RADIUS_KM * 1000
                /\ Rejected(w) =>
                     /\ req[w].outcome.value[1].detail[2] = RoundMetres(d)
                     /\ req[w].outcome.value[1].detail[3] = MAX_SERVICE_RADIUS_KM
                     /\ req[w].outcome.value[1].detail[4][1] = SEPTA_CENTER_LAT
                     /\ req[w].outcome.value[1].detail[4][2] = SEPTA_CENTER_LON
                     /\ req[w].calls \cap {"cache_get", "tree_query",
                                           "directions", "cache_set"} = {}
           /\ req[w].calls \cap {"cache_get", "tree_query", "cache_set"} # {}
                => "filter" \in req[w].calls /\ ~Rejected(w)

\* A location at exactly 80 km has passed the check and reached the cache,
\* while another, further out, has been rejected.
C3_Witness ==
    \E w, v \in Workers :
        /\ "cache_get" \in req[w].calls
        /\ DistanceToCenter(req[w].location) = MAX_SERVICE_RADIUS_KM * 1000
        /\ Rejected(v)
        /\ DistanceToCenter(req[v].location) = 80005

\* The first call (worker w) stored its response and the second call (worker
\* v), for the same coordinates, was served from that cache entry.
ServedFromEntryOf(v, w) ==
    /\ v # w
    /\ req[w].pc = "teardown" /\ "cache_set" \in req[w].calls
    /\ req[v].pc = "teardown" /\ req[v].cached_result # None
    /\ req[v].location.latitude = req[w].location.latitude
    /\ req[v].location.longitude = req[w].location.longitude
    /\ req[v].cached_result = ModelDumpJson(req[w].response[1])

\* C4: two calls with the same resolved coordinates give the caller the same
\* result: the second, served from the entry the first wrote, has the same
\* structure, station and distance_km as the first.
C4_SameResultTwice ==
    \A w, v \in Workers :
        ServedFromEntryOf(v, w) =>
            ClientResponse(req[v].outcome) = ClientResponse(req[w].outcome)

\* C5: when the walking-directions step fails (network failure, a code
\* other than "Ok", a malformed payload), the request still builds and
\* returns its response, with the station and the distance and without
\* walking directions.
C5_DirectionsFailureIsNotFatal ==
    \A w \in Workers :
        req[w].osrm = "failed" =>
            /\ req[w].pc \in {"store", "teardown"}
            /\ req[w].response # None
            /\ req[w].response[1].walking_directions = None
            /\ req[w].response[1].station_name = req[w].nearest_station[1].Name
            /\ req[w].response[1].distance_km = Round2(req[w].distance_km)
            /\ req[w].pc = "teardown" =>
                 /\ req[w].outcome = Return(req[w].response[1])
                 /\ ClientResponse(req[w].outcome).status = 200

\* A request whose directions failed has returned its response.
C5_Witness ==
    \E w \in Workers :
        /\ req[w].osrm = "failed"
        /\ req[w].pc = "teardown"
        /\ ClientResponse(req[w].outcome).status = 200

\* The path operation of worker w raised one of its user-input errors.
UserInputError(w) ==
    /\ req[w].pc = "teardown"
    /\ req[w].outcome.kind = "raise"
    /\ req[w].outcome.value[1].exc = "HTTPException"
    /\ req[w].outcome.value[1].status_code \in {400, 422}

\* C6: a user-input error raised by the path operation (400, 422) reaches
\* the caller with the same status and detail; the exit of the
\* dependencies does not turn it into a 500.
C6_UserErrorsReachCaller ==
    \A w \in Workers :
        UserInputError(w) =>
            /\ ClientResponse(req[w].outcome).status
                   = req[w].outcome.value[1].status_code
            /\ ClientResponse(req[w].outcome).detail
                   = req[w].outcome.value[1].detail

\* The request of worker w waits for a reply that is not coming, in a call
\* that has no timeout: no step of the request is possible from here.
Suspended(w) == req[w].pc = "blocked"

\* C7: both adapters bound their network calls, so no request stays
\* suspended on a geocoding or routing service that never answers.
C7_NoRequestSuspended ==
    \A w \in Workers : ~Suspended(w)

\* The index query of worker w's request ran with the index not loaded.
QueriedUnloaded(w) == "tree_query" \in req[w].calls /\ tree[w] = None

Hit(w) == req[w].cached_result # None

\* C9: a cache hit is terminal: the stored entry is returned without an
\* index query, a directions call or a cache write; those happen only
\* after a miss, and the write is made under the key of the lookup.
C9_HitIsTerminal ==
    \A w \in Workers :
        /\ Hit(w) =>
             /\ req[w].pc = "teardown"
             /\ req[w].outcome = ReturnStr(req[w].cached_result)
             /\ req[w].calls \cap {"tree_query", "directions", "cache_set"} = {}
        /\ req[w].calls \cap {"tree_query", "directions", "cache_set"} # {} =>
             /\ "cache_get" \in req[w].calls
             /\ ~Hit(w)
        /\ "cache_set" \in req[w].calls =>
             /\ req[w].cache_key = Some(CacheKey(req[w].location.latitude[1],
                                                 req[w].location.longitude[1]))
             /\ req[w].cache_key[1] \in DOMAIN redis

\* A request has been answered from the cache.
C9_Witness ==
    \E w \in Workers : Hit(w) /\ req[w].pc = "teardown"

\* The dataset and the index of worker w are both absent, or both present
\* with the index built from that dataset, row by row.
Consistent(w) ==
    \/ data[w] = None /\ tree[w] = None
    \/ /\ data[w] # None /\ tree[w] # None
       /\ Len(tree[w][1]) = Len(data[w][1])
       /\ \A i \in 1..Len(data[w][1]) :
            tree[w][1][i] = <<Radians(Degrees(data[w][1][i].y)),
                              Radians(Degrees(data[w][1][i].x))>>

\* C10: in every state, under any interleaving of requests with the load
\* and the unload, the dataset and the index of a worker are both absent or
\* both present and built from the same dataset.
C10_DataAndTreeAgree ==
    \A w \in Workers : Consistent(w)

\* A request is under way on a worker whose dataset has been replaced.
C10_Witness ==
    \E w \in Workers :
        /\ "tree_query" \in req[w].calls
        /\ data[w] = Some(DatasetB)
        /\ \E v \in Workers : data[v] = Some(DatasetA)

\* Two requests for the same resolved coordinates, on workers holding the
\* same dataset, both missed the cache and both wrote their response.
BothWrote(w, v) ==
    /\ w # v
    /\ req[w].pc = "teardown" /\ "cache_set" \in req[w].calls
    /\ req[v].pc = "teardown" /\ "cache_set" \in req[v].calls
    /\ req[w].cache_key = req[v].cache_key
    /\ data[w] = data[v]

\* C11: when two requests for the same resolved coordinates both miss the
\* cache and both write, the key holds one entry and it is the entry a
\* single run stores: the text of either request's response, so that the
\* second write changes nothing.
C11_DoubleRunHarmless ==
    \A w, v \in Workers :
        BothWrote(w, v) =>
            /\ req[w].cache_key[1] \in DOMAIN redis
            /\ redis[req[w].cache_key[1]] = ModelDumpJson(req[w].response[1])
            /\ redis[req[w].cache_key[1]] = ModelDumpJson(req[v].response[1])
=============================================================================
